---- MODULE Spec2Model ----
(***************************************************************************)
(* Model of srtnr-mini's worker (src/src/worker.ts): the fetch handler,    *)
(* its routes, the API-key check, unique-slug resolution, the two KV       *)
(* stores (URL_KV, LINK_CLICKS_KV) and the detached click increment.       *)
(*                                                                         *)
(* JavaScript strings are sequences of one-character strings, so that      *)
(* startsWith, slice, substring and length are computed as the code        *)
(* computes them.  null/undefined and a non-string JSON value are the      *)
(* one-element sequences Null and NonString, whose element is not a        *)
(* character.                                                              *)
(***************************************************************************)
EXTENDS Integers, Sequences, FiniteSets, Bags, TLC

\* ------------------------------------------------------------------ bounds

\* Requests the model starts in one behaviour.
MaxReqs == 3
\* Requests the model starts in one behaviour of ReqSpec, whose requests are
\* taken with every header, secret and body.
MaxProbes == 1
MaxChain == 4
MaxListReqs == 2
\* Keys the list backend returns per page (the backend's choice, at most the
\* limit the code asks for).
PageSize == 1

\* ------------------------------------------------------------- JS strings

Null == <<"null">>
NonString == <<"number">>

startsWith(s, p) == Len(s) >= Len(p) /\ SubSeq(s, 1, Len(p)) = p

\* s.slice(n) / s.substring(n) for 0 <= n
slice(s, n) == SubSeq(s, n + 1, Len(s))

\* !v for a string-or-null value: null, undefined and '' are falsy
Falsy(v) == v = Null \/ v = <<>>

\* The non-string JSON value is a number other than 0: NumText is its decimal
\* text.
NumText == <<"7">>

\* The string a value is taken as where a string is expected, `${v}` and the key
\* of a KV call: the string itself, the decimal text of the number.
toKey(v) == IF v = NonString THEN NumText ELSE v

\* ---------------------------------------------------------- route strings

S_root == <<"/">>
S_api == <<"/", "a", "p", "i", "/">>
S_shorten == <<"/", "a", "p", "i", "/", "s", "h", "o", "r", "t", "e", "n">>
S_delete == <<"/", "a", "p", "i", "/", "d", "e", "l", "e", "t", "e">>
S_apiLinks == <<"/", "a", "p", "i", "/", "l", "i", "n", "k", "s">>
S_apiLinksSlash == S_apiLinks \o <<"/">>
S_links == <<"/", "l", "i", "n", "k", "s">>
S_linksSlash == S_links \o <<"/">>
S_http == <<"h", "t", "t", "p">>
S_Bearer == <<"B", "e", "a", "r", "e", "r", " ">>
S_origin == <<"h", "t", "t", "p", "s", ":", "/", "/", "s", ".", "t">>

\* ------------------------------------------------------------ generateSlug

chars ==
  << "a", "b", "c", "d", "e", "f", "g", "h", "i", "j", "k", "l", "m",
     "n", "o", "p", "q", "r", "s", "t", "u", "v", "w", "x", "y", "z",
     "A", "B", "C", "D", "E", "F", "G", "H", "I", "J", "K", "L", "M",
     "N", "O", "P", "Q", "R", "S", "T", "U", "V", "W", "X", "Y", "Z",
     "0", "1", "2", "3", "4", "5", "6", "7", "8", "9" >>

\* The slug length of the loop in generateSlug.
SlugLen == 6

\* Outcomes of the six Math.floor(Math.random() * chars.length) draws of one
\* generateSlug call: each draw is an index 0..61 into chars.
RandDraws == { <<0, 0, 0, 0, 0, 0>>, <<25, 26, 51, 52, 61, 0>> }

generateSlugShort(draw) == [i \in 1..(SlugLen - 1) |-> chars[draw[i] + 1]]

generateSlug(draw) == [i \in 1..SlugLen |-> chars[draw[i] + 1]]

GenSlugs == { generateSlug(d) : d \in RandDraws }

\* The default of getUniqueSlug's retries parameter.
Retries == 5

\* --------------------------------------------------- number <-> string

Digits == <<"0", "1", "2", "3", "4", "5", "6", "7", "8", "9">>

DigitVal(c) == CHOOSE d \in 0..9 : Digits[d + 1] = c

IsDigit(c) == \E d \in 0..9 : Digits[d + 1] = c

RECURSIVE String(_)
\* String(n) for an integer n >= 0: its decimal form
String(n) == IF n < 10 THEN <<Digits[n + 1]>> ELSE String(n \div 10) \o <<Digits[(n % 10) + 1]>>

RECURSIVE ParseDigits(_, _, _)
\* the value of the leading decimal digits of s from position i, acc so far
ParseDigits(s, i, acc) ==
  IF i > Len(s) \/ ~IsDigit(s[i]) THEN acc ELSE ParseDigits(s, i + 1, acc * 10 + DigitVal(s[i]))

\* parseInt(raw == null ? '0' : String(raw), 10), then Number.isFinite(n) ? n : 0
\* (a text with no leading digit parses to NaN, which is replaced by 0)
parseCount(raw) ==
  LET text == IF raw = Null THEN <<"0">> ELSE raw
  IN IF Len(text) = 0 \/ ~IsDigit(text[1]) THEN 0 ELSE ParseDigits(text, 1, 0)

\* ------------------------------------------------- decodeURIComponent

Hex == {"0", "1", "2", "3", "4", "5", "6", "7", "8", "9", "A", "B", "C", "D", "E", "F"}

\* the escapes the model's paths use: %6F is o, %2F is /
Unescape(h1, h2) ==
  IF h1 = "6" /\ h2 = "F" THEN "o" ELSE IF h1 = "2" /\ h2 = "F" THEN "/" ELSE "?"

RECURSIVE decodeFrom(_, _)
\* decodeURIComponent of s from position i: [ok, val]; a % not followed by two
\* hex digits is a URIError
decodeFrom(s, i) ==
  IF i > Len(s) THEN [ok |-> TRUE, val |-> <<>>]
  ELSE IF s[i] # "%"
    THEN LET r == decodeFrom(s, i + 1) IN [ok |-> r.ok, val |-> <<s[i]>> \o r.val]
    ELSE IF i + 2 > Len(s) \/ s[i + 1] \notin Hex \/ s[i + 2] \notin Hex
      THEN [ok |-> FALSE, val |-> <<>>]
      ELSE LET r == decodeFrom(s, i + 3)
           IN [ok |-> r.ok, val |-> <<Unescape(s[i + 1], s[i + 2])>> \o r.val]

decodeURIComponent(s) == decodeFrom(s, 1)

\* ---------------------------------------------------- Response.redirect

S_httpScheme == <<"h", "t", "t", "p", ":", "/", "/">>
S_httpsScheme == <<"h", "t", "t", "p", "s", ":", "/", "/">>

\* the part of an absolute http(s) URL after the scheme's //
AfterScheme(u) ==
  IF startsWith(u, S_httpsScheme) THEN slice(u, Len(S_httpsScheme))
  ELSE IF startsWith(u, S_httpScheme) THEN slice(u, Len(S_httpScheme))
  ELSE <<>>

\* Response.redirect(url, 301) parses url: a string that is no absolute URL is a
\* TypeError; the Location header is the parsed URL serialized, which gives a URL
\* without a path the path /.
RedirectParses(u) == Len(AfterScheme(u)) > 0 /\ AfterScheme(u)[1] # "/"

RedirectLocation(u) ==
  IF \E i \in 1..Len(AfterScheme(u)) : AfterScheme(u)[i] = "/" THEN u ELSE u \o <<"/">>

\* --------------------------------------------------------- validateApiKey

K1 == <<"k", "1">>
K2 == <<"k", "2">>
K == <<"k">>

isSubstring(needle, hay) ==
  \E i \in 0..(Len(hay) - Len(needle)) : SubSeq(hay, i + 1, i + Len(needle)) = needle

\* JSON texts a secret can hold, by what JSON.parse makes of them.
J_arrayK1 == [json |-> "array", items |-> <<K1>>, str |-> <<>>]
J_stringK1 == [json |-> "string", items |-> <<>>, str |-> K1]
J_object == [json |-> "object", items |-> <<>>, str |-> <<>>]
J_invalid == [json |-> "invalid", items |-> <<>>, str |-> <<>>]
J_empty == [json |-> "empty", items |-> <<>>, str |-> <<>>]
J_null == [json |-> "null", items |-> <<>>, str |-> <<>>]

\* env.API_KEYS: a string, a secrets-store binding whose get() resolves to a
\* string or null or rejects, or no usable binding.
SecretString(t) == [form |-> "string", text |-> t]
SecretStore(t) == [form |-> "store", text |-> t]
SecretStoreThrows == [form |-> "throws", text |-> J_null]
SecretNone == [form |-> "none", text |-> J_null]

\* secretValue after lines 69-74 (J_null: null)
secretValue(secret) == IF secret.form \in {"string", "store"} THEN secret.text ELSE J_null

\* allowedKeys.includes(providedKey): Array.prototype.includes on an array,
\* String.prototype.includes on a string, a TypeError on anything else.
includesKey(t, providedKey) ==
  CASE t.json = "array" -> \E i \in 1..Len(t.items) : t.items[i] = providedKey
    [] t.json = "string" -> isSubstring(providedKey, t.str)
    [] OTHER -> FALSE

\* validateApiKey(request, env) !== null
validateApiKeyLax(authHeader, secret) ==
  /\ authHeader # Null
  /\ secret.form # "throws"
  /\ secretValue(secret).json \notin {"null", "empty", "invalid"}
  /\ includesKey(secretValue(secret), slice(authHeader, 7))

validateApiKey(authHeader, secret) ==
  /\ authHeader # Null
  /\ startsWith(authHeader, S_Bearer)
  /\ secret.form # "throws"
  /\ secretValue(secret).json \notin {"null", "empty"}
  /\ secretValue(secret).json # "invalid"
  /\ includesKey(secretValue(secret), slice(authHeader, 7))

\* ------------------------------------------------------- request inputs

SlugGo == <<"g", "o">>
SlugLinks == <<"l", "i", "n", "k", "s">>
SlugGen1 == <<"a", "a", "a", "a", "a", "a">>

UrlA == <<"h", "t", "t", "p", ":", "/", "/", "a", "/">>
UrlB == <<"h", "t", "t", "p", "s", ":", "/", "/", "b">>
UrlX == <<"h", "t", "t", "p", "x">>
UrlFtp == <<"f", "t", "p", ":", "/", "/", "x">>

P_go == <<"/">> \o SlugGo
P_gen1 == <<"/">> \o SlugGen1
P_infoGo == S_apiLinksSlash \o SlugGo
P_infoGoAlias == S_linksSlash \o SlugGo
P_infoGoEsc == S_apiLinksSlash \o <<"g", "%", "6", "F">>
P_infoBadEsc == S_apiLinksSlash \o <<"%">>
P_infoLinks == S_apiLinksSlash \o SlugLinks
P_infoGen1 == S_apiLinksSlash \o SlugGen1
P_apiLinksX == S_apiLinks \o <<"x">>

Methods == {"GET", "POST", "DELETE", "PUT"}

Paths ==
  { S_root, S_shorten, S_delete, S_apiLinks, S_apiLinksSlash, S_links, S_linksSlash,
    P_go, P_gen1, P_infoGo, P_infoGoAlias, P_infoGoEsc, P_infoBadEsc, P_infoLinks,
    P_infoGen1, P_apiLinksX }

\* request.json(): either throws or gives an object with these two fields
Body(u, sl) == [parse |-> "ok", url |-> u, slug |-> sl]
BodyThrows == [parse |-> "throws", url |-> Null, slug |-> Null]
NoBody == BodyThrows

CustomSlugs == {SlugGo, SlugLinks}

\* shorten bodies: the two valid urls with every slug, the url no URL parser
\* takes, and urls the handler refuses
ShortenBodies ==
  { Body(u, sl) : u \in {UrlA, UrlB}, sl \in {Null, <<>>} \cup CustomSlugs }
  \cup { Body(UrlX, SlugGo), Body(UrlFtp, SlugGo), Body(Null, Null), Body(NonString, SlugLinks),
         Body(<<>>, Null), BodyThrows }

DeleteBodies ==
  { Body(Null, sl) : sl \in {Null, <<>>, SlugGen1} \cup CustomSlugs } \cup {BodyThrows}

H_none == Null
H_digestK1 == <<"D", "i", "g", "e", "s", "t", " ">> \o K1
H_bearerK1 == S_Bearer \o K1
H_bearerK2 == S_Bearer \o K2
H_bearerK == S_Bearer \o K

AuthHeaders == {H_none, H_digestK1, H_bearerK1, H_bearerK2, H_bearerK}

Secrets ==
  { SecretString(J_arrayK1), SecretStore(J_arrayK1), SecretStore(J_null), SecretStoreThrows,
    SecretNone, SecretString(J_invalid), SecretString(J_stringK1), SecretString(J_empty),
    SecretStore(J_object) }

Req(m, path, h, sec, b) == [method |-> m, pathname |-> path, auth |-> h, secret |-> sec, body |-> b]

BodyOf(m, b) == IF m \in {"POST", "DELETE"} THEN b ELSE NoBody

GoodHeader == H_bearerK1
GoodSecret == SecretStore(J_arrayK1)

\* Requests that reach the stores: a valid key, every shorten and delete body,
\* GETs of slugs, of their infos and of the list.
StorePaths == {S_root, S_apiLinks, S_links, P_go, P_gen1, P_infoGo, P_infoGoEsc, P_infoLinks, P_apiLinksX}

StoreReqs ==
  { Req("POST", S_shorten, GoodHeader, GoodSecret, b) : b \in ShortenBodies }
  \cup { Req("DELETE", S_delete, GoodHeader, GoodSecret, b) : b \in DeleteBodies }
  \cup { Req("GET", path, GoodHeader, GoodSecret, NoBody) : path \in StorePaths }

\* Requests that overlap: shortens of one custom slug with two urls, its delete,
\* redirect, info and the list, the health check and an unknown route.
ConcReqs ==
  { Req("POST", S_shorten, GoodHeader, GoodSecret, b) :
      b \in {Body(UrlA, SlugGo), Body(UrlB, SlugGo)} }
  \cup { Req("DELETE", S_delete, GoodHeader, GoodSecret, Body(Null, SlugGo)) }
  \cup { Req("GET", path, GoodHeader, GoodSecret, NoBody) :
           path \in {S_root, S_apiLinks, P_go, P_infoGo, P_apiLinksX} }

\* Every method on every path, with a valid key and with no Authorization
\* header.
RouteReqs ==
  { Req(m, path, h, GoodSecret, BodyOf(m, Body(UrlA, SlugGo))) :
      m \in Methods, path \in Paths, h \in {GoodHeader, H_none} }

\* The routes that check the key, with every Authorization header and every
\* secret, with a valid and an invalid body.
AuthRoutes ==
  { <<"POST", S_shorten>>, <<"DELETE", S_delete>>, <<"GET", S_apiLinks>>,
    <<"GET", S_linksSlash>>, <<"GET", P_infoGo>>, <<"GET", P_infoGoAlias>>,
    <<"GET", P_infoBadEsc>> }

AuthReqs ==
  { Req(r[1], r[2], h, sec, BodyOf(r[1], b)) :
      r \in AuthRoutes, h \in AuthHeaders, sec \in Secrets,
      b \in {Body(UrlA, SlugGo), Body(UrlFtp, Null)} }

\* Every shorten body, with a valid key.
ShortenReqs == { Req("POST", S_shorten, GoodHeader, GoodSecret, b) : b \in ShortenBodies }

\* ------------------------------------------------------------- routing

ListPaths == {S_apiLinks, S_apiLinksSlash, S_links, S_linksSlash}

isInfoPath(pathname) ==
  \/ startsWith(pathname, S_apiLinksSlash) /\ Len(pathname) > Len(S_apiLinksSlash)
  \/ startsWith(pathname, S_linksSlash) /\ Len(pathname) > Len(S_linksSlash)

\* the route names of the if chain of fetch, as if it skipped the list route
RouteNoList(method, pathname) ==
  IF method = "GET" /\ pathname = S_root THEN "health"
  ELSE IF method = "POST" /\ pathname = S_shorten THEN "shorten"
  ELSE IF method = "DELETE" /\ pathname = S_delete THEN "delete"
  ELSE IF method = "GET" /\ isInfoPath(pathname) THEN "info"
  ELSE IF method = "GET" /\ ~startsWith(pathname, S_api) THEN "redirect"
  ELSE "notfound"

\* the if chain of fetch: the first route whose condition holds
Route(method, pathname) ==
  IF method = "GET" /\ pathname = S_root THEN "health"
  ELSE IF method = "POST" /\ pathname = S_shorten THEN "shorten"
  ELSE IF method = "DELETE" /\ pathname = S_delete THEN "delete"
  ELSE IF method = "GET" /\ isInfoPath(pathname) THEN "info"
  ELSE IF method = "GET" /\ pathname \in ListPaths THEN "list"
  ELSE IF method = "GET" /\ ~startsWith(pathname, S_api) THEN "redirect"
  ELSE "notfound"

\* the base the info route strips from the path
infoBase(pathname) == IF startsWith(pathname, S_apiLinksSlash) THEN S_apiLinksSlash ELSE S_linksSlash

\* the slug of the redirect route
redirectSlug(pathname) == IF startsWith(pathname, S_root) THEN slice(pathname, 1) ELSE pathname

\* !body.url || typeof body.url !== 'string' || !body.url.startsWith('http')
invalidUrlLax(u) == Falsy(u) \/ u = NonString

invalidUrl(u) == Falsy(u) \/ u = NonString \/ ~startsWith(u, S_http)

\* ------------------------------------------------------------ responses

R0 ==
  [ status |-> 0, kind |-> "json", msg |-> "", slug |-> Null, shortUrl |-> Null,
    location |-> Null, destination |-> Null, created |-> "", clicks |-> 0,
    links |-> <<>> ]

\* json({error: msg}, {status})
JsonError(st, m) == [R0 EXCEPT !.status = st, !.msg = m]
\* new Response(text, {status})
TextJson(st, m) == [R0 EXCEPT !.status = st, !.msg = m]

Text(st, m) == [R0 EXCEPT !.status = st, !.kind = "text", !.msg = m]
Unauthorized == JsonError(401, "missing or invalid API key")

\* the catch-all of fetch (lines 271-274)
CatchAllRethrows == [R0 EXCEPT !.kind = "exception"]

CatchAll == Text(500, "server error")

\* ------------------------------------------------------------ KV stores

\* A store is a function from the keys it holds to their values.  URL_KV holds
\* the JSON text of a StoredLink (the record it parses back to), LINK_CLICKS_KV
\* the decimal text of a count.
EmptyKV == [k \in {} |-> Null]

kvHas(kv, k) == k \in DOMAIN kv

kvPut(kv, k, v) == [x \in (DOMAIN kv) \cup {k} |-> IF x = k THEN v ELSE kv[x]]

kvDelete(kv, k) == [x \in (DOMAIN kv) \ {k} |-> kv[x]]

\* kv.get(key): the text, or Null
kvGetText(kv, k) == IF kvHas(kv, k) THEN kv[k] ELSE Null

\* new Date().toISOString(): the model keeps no clock
Now == "iso"

StoredLink(url, slug) == [originalUrl |-> url, slug |-> slug, created |-> Now]

NoLink == StoredLink(Null, Null)

\* Byte order of the characters keys are made of: list() returns keys in
\* lexicographic order.
Ascii ==
  << "%", "/", "0", "1", "2", "3", "4", "5", "6", "7", "8", "9",
     "A", "B", "C", "D", "E", "F", "G", "H", "I", "J", "K", "L", "M",
     "N", "O", "P", "Q", "R", "S", "T", "U", "V", "W", "X", "Y", "Z",
     "a", "b", "c", "d", "e", "f", "g", "h", "i", "j", "k", "l", "m",
     "n", "o", "p", "q", "r", "s", "t", "u", "v", "w", "x", "y", "z" >>

CharRank(c) == CHOOSE i \in 1..Len(Ascii) : Ascii[i] = c

RECURSIVE LexLess(_, _)
LexLess(a, b) ==
  IF Len(b) = 0 THEN FALSE
  ELSE IF Len(a) = 0 THEN TRUE
  ELSE IF a[1] = b[1] THEN LexLess(Tail(a), Tail(b))
  ELSE CharRank(a[1]) < CharRank(b[1])

RECURSIVE SortedKeys(_)
SortedKeys(S) ==
  IF S = {} THEN <<>>
  ELSE LET m == CHOOSE x \in S : \A y \in S \ {x} : LexLess(x, y)
       IN <<m>> \o SortedKeys(S \ {m})

\* URL_KV.list({cursor, limit}): the next page of at most PageSize keys after
\* the cursor (the last key of the page before), list_complete when no key is
\* left after it, and a cursor while the listing is not complete.
kvList(kv, cursor) ==
  LET rest == SortedKeys({ k \in DOMAIN kv : cursor = Null \/ LexLess(cursor, k) })
      n == IF Len(rest) < PageSize THEN Len(rest) ELSE PageSize
      page == SubSeq(rest, 1, n)
      complete == Len(rest) <= PageSize
  IN [ keys |-> page, list_complete |-> complete,
       cursor |-> IF complete THEN Null ELSE page[n] ]

\* What the interface of list leaves to the backend: an incomplete page may come
\* without a cursor ("nocursor": cursor is optional), and a page may repeat the
\* key the cursor names, the last key of the page before ("repeat").
Quirks == {"none", "nocursor", "repeat"}

kvListQuirk(kv, cursor, quirk) ==
  LET res == kvList(kv, cursor)
  IN CASE quirk = "nocursor" -> [res EXCEPT !.cursor = Null]
       [] quirk = "repeat" /\ cursor # Null -> [res EXCEPT !.keys = <<cursor>> \o @]
       [] OTHER -> res

\* the paging loop is left: list_complete, or no cursor to go on with (lines
\* 228-229)
listDoneFirstPage(res) == TRUE

listDone(res) == res.list_complete \/ Falsy(res.cursor)

DedupeNone(keys) == keys

RECURSIVE Dedupe(_)
\* Array.from(new Set(keys)): the first occurrence of each key, in order
Dedupe(keys) ==
  IF keys = <<>> THEN <<>>
  ELSE LET front == Dedupe(SubSeq(keys, 1, Len(keys) - 1))
           k == keys[Len(keys)]
       IN IF \E i \in 1..Len(front) : front[i] = k THEN front ELSE Append(front, k)

\* ----------------------------------------------------------------- state

Procs == 1..2

VARIABLES
  urlKV,      \* URL_KV
  clicksKV,   \* LINK_CLICKS_KV
  kvHasList,  \* typeof env.URL_KV.list === 'function'
  pc,         \* per request slot: idle, or the await the handler is at
  loc,        \* per request slot: the handler's locals
  tasks,      \* bag of detached incrementClickCount calls
  nreq,       \* requests started so far
  last,       \* the request answered last, with its response
  prev,       \* when last is a GET /<slug>: the shorten or delete of that slug just before
  hits,       \* per slug, the 301 responses given so far
  strays      \* per slug, the increments started by a redirect that was answered 500

vars == <<urlKV, clicksKV, kvHasList, pc, loc, tasks, nreq, last, prev, hits, strays>>

NoReq == Req("GET", S_root, Null, SecretNone, NoBody)

IdleLoc ==
  [ req |-> NoReq, slug |-> Null, custom |-> FALSE, i |-> 0, keys |-> <<>>,
    cursor |-> Null, infos |-> <<>>, rec |-> NoLink, ops |-> 0, pre |-> EmptyKV,
    existing |-> FALSE, met |-> {} ]

\* What is kept of an answered request: the request, the response, the number
\* of store calls the handler made, and of the Link Store as it was when the
\* request started: whether it held the body's slug (had) and under which URL
\* (preUrl), and whether it did not hold the slug the response names (fresh);
\* met: what the handler met on its way: "link", a call on URL_KV rejected;
\* "clicks", a LINK_CLICKS_KV.get of getClickCount rejected; "nocursor", an
\* incomplete page of URL_KV.list came without a cursor; "repeat", a page
\* repeated a key.
Entry(req, resp, nops, pre, met) ==
  [ req |-> req, resp |-> resp, ops |-> nops, met |-> met,
    had |-> kvHas(pre, req.body.slug),
    preUrl |-> IF kvHas(pre, req.body.slug) THEN pre[req.body.slug].originalUrl ELSE Null,
    fresh |-> ~kvHas(pre, resp.slug) ]

NoEntry == Entry(NoReq, R0, 0, EmptyKV, {})

\* What a following GET /<slug> (the request next) needs of the request e
\* answered before it: that e was an authorized shorten with a valid url and the
\* custom slug, or an authorized delete of the slug, and whether the slug was in
\* the Link Store when e started.
Digest(e, next) ==
  LET r == e.req
      ok == e.resp.status # 0 /\ validateApiKey(r.auth, r.secret) /\ r.body.parse = "ok"
           /\ ~Falsy(r.body.slug)
      op == IF ok /\ Route(r.method, r.pathname) = "shorten" /\ ~invalidUrl(r.body.url)
              THEN "shorten"
            ELSE IF ok /\ Route(r.method, r.pathname) = "delete" THEN "delete"
            ELSE "none"
  IN IF op = "none" \/ next.method # "GET" \/ next.pathname # <<"/">> \o r.body.slug
       THEN [op |-> "none", slug |-> Null, url |-> Null, had |-> FALSE, preUrl |-> Null]
       ELSE [ op |-> op, slug |-> r.body.slug, url |-> r.body.url, had |-> e.had,
              preUrl |-> e.preUrl ]

PathSlugs == { redirectSlug(path) : path \in Paths }

\* The namespaces outlive the worker: it starts on an empty Link Store, or on
\* one that holds a link an earlier shorten wrote.  No click was counted yet.
InitialStores == {EmptyKV, kvPut(EmptyKV, SlugGo, StoredLink(UrlA, SlugGo))}

\* A Link Store that holds a link whose url passed the check of the shorten and
\* that Response.redirect does not parse.
UnparsedStore == kvPut(EmptyKV, SlugGo, StoredLink(UrlX, SlugGo))

InitOver(stores) ==
  /\ urlKV \in stores
  /\ clicksKV = EmptyKV
  /\ kvHasList \in BOOLEAN
  /\ pc = [p \in Procs |-> "idle"]
  /\ loc = [p \in Procs |-> IdleLoc]
  /\ tasks = EmptyBag
  /\ nreq = 0
  /\ last = NoEntry
  /\ prev = Digest(NoEntry, NoReq)
  /\ hits = [s \in PathSlugs |-> 0]
  /\ strays = [s \in PathSlugs |-> 0]

Init == InitOver(InitialStores)

\* The handler of slot p returns resp: the slot is free again.
\* started: the handler has started an increment of the slug it redirects.
RespondNoted(p, req, resp, nops, pre, started, met) ==
  /\ last' = Entry(req, resp, nops, pre, met)
  /\ prev' = Digest(last, req)
  /\ hits' = IF resp.status = 301
               THEN [hits EXCEPT ![redirectSlug(req.pathname)] = @ + 1]
               ELSE hits
  /\ strays' = IF started /\ resp.status # 301
                 THEN [strays EXCEPT ![redirectSlug(req.pathname)] = @ + 1]
                 ELSE strays
  /\ pc' = [pc EXCEPT ![p] = "idle"]
  /\ loc' = [loc EXCEPT ![p] = IdleLoc]

RespondStarted(p, req, resp, nops, pre, started) ==
  RespondNoted(p, req, resp, nops, pre, started, {})

Respond(p, req, resp, nops, pre) == RespondStarted(p, req, resp, nops, pre, FALSE)

\* As if the key were checked inside the try of the route, after its store
\* call: the rejected call is answered 401.
RejectedUnauthorized(p, l, resp) ==
  RespondNoted(p, l.req, Unauthorized, l.ops, l.pre, FALSE, l.met \cup {"link"})

\* A call on URL_KV of the handler l has rejected: the catch of its route
\* returns resp.
Rejected(p, l, resp) ==
  RespondNoted(p, l.req, resp, l.ops, l.pre, FALSE, l.met \cup {"link"})

\* The handler of slot p goes on to the await named next.
Goto(p, next, l) ==
  /\ pc' = [pc EXCEPT ![p] = next]
  /\ loc' = [loc EXCEPT ![p] = l]
  /\ UNCHANGED <<last, prev, hits, strays>>

\* No request is being handled and no detached increment is pending.
Quiet == (\A p \in Procs : pc[p] = "idle") /\ tasks = EmptyBag

\* A request can arrive at the idle slot p, up to max requests; seq: requests
\* are taken one at a time.
Arrives(p, seq, max) ==
  /\ pc[p] = "idle"
  /\ seq => Quiet
  /\ nreq < max
  /\ nreq' = nreq + 1

StartLoc(req) == [IdleLoc EXCEPT !.req = req, !.pre = urlKV]

\* ------------------------------------------------- health and fallthrough

\* GET /: the health check (lines 131-133)
Health(p, R, seq, max) ==
  /\ Arrives(p, seq, max)
  /\ \E req \in R :
       /\ Route(req.method, req.pathname) = "health"
       /\ Respond(p, req, [R0 EXCEPT !.status = 200, !.msg = "ok"], 0, urlKV)
       /\ UNCHANGED <<urlKV, clicksKV, kvHasList, tasks>>

\* no route matched (line 270)
NotFound(p, R, seq, max) ==
  /\ Arrives(p, seq, max)
  /\ \E req \in R :
       /\ Route(req.method, req.pathname) = "notfound"
       /\ Respond(p, req, Text(404, "not found"), 0, urlKV)
       /\ UNCHANGED <<urlKV, clicksKV, kvHasList, tasks>>

\* ------------------------------------------------------ POST /api/shorten

\* customSlug || generateSlug()
firstSlug(customSlug, draw) == IF Falsy(customSlug) THEN generateSlug(draw) ELSE customSlug

\* the response of json({ shortUrl: `${url.origin}/${slug}`, slug })
Shortened(slug) ==
  [R0 EXCEPT !.status = 200, !.slug = slug, !.shortUrl = S_origin \o <<"/">> \o toKey(slug)]

\* lines 136-148, to the first await of getUniqueSlug: the key check, the body,
\* the url check, the first candidate slug
ShortenStart(p, R, seq, max) ==
  /\ Arrives(p, seq, max)
  /\ \E req \in R, draw \in RandDraws :
       /\ Route(req.method, req.pathname) = "shorten"
       /\ IF ~validateApiKey(req.auth, req.secret)
            THEN Respond(p, req, Unauthorized, 0, urlKV)
          ELSE IF req.body.parse = "throws"
            THEN Respond(p, req, JsonError(500, "Server Error"), 0, urlKV)
          ELSE IF invalidUrl(req.body.url)
            THEN Respond(p, req, JsonError(400, "Invalid URL"), 0, urlKV)
          ELSE Goto(p, "check",
                    [StartLoc(req) EXCEPT !.slug = firstSlug(req.body.slug, draw),
                                          !.custom = ~Falsy(req.body.slug)])
       /\ UNCHANGED <<urlKV, clicksKV, kvHasList, tasks>>

\* What one pass of the loop of getUniqueSlug does once kv.get(slug) has
\* answered existing, in pass i (from 0): return the slug, throw, or go round
\* again with a new candidate.
uniqueSlugStepOverwrite(existing, custom, i) ==
  IF ~existing \/ custom THEN "return"
  ELSE IF i + 1 < Retries THEN "retry"
  ELSE "throw"

uniqueSlugStepOneMore(existing, custom, i) ==
  IF ~existing THEN "return"
  ELSE IF custom THEN "throw"
  ELSE IF i + 1 <= Retries THEN "retry"
  ELSE "throw"

uniqueSlugStep(existing, custom, i) ==
  IF ~existing THEN "return"
  ELSE IF custom THEN "throw"
  ELSE IF i + 1 < Retries THEN "retry"
  ELSE "throw"

\* one await kv.get(slug) of getUniqueSlug (lines 40-46); fail: the get rejects
ShortenCheck(p, fail) ==
  /\ pc[p] = "check"
  /\ LET l == [loc[p] EXCEPT !.ops = @ + 1]
         step == uniqueSlugStep(kvHas(urlKV, toKey(l.slug)), l.custom, l.i)
     IN IF fail
          THEN Rejected(p, l, JsonError(500, "Server Error"))
        ELSE IF step = "throw"
          THEN Respond(p, l.req, JsonError(500, "Server Error"), l.ops, l.pre)
        ELSE IF step = "return"
          THEN Goto(p, "put", [l EXCEPT !.existing = kvHas(urlKV, toKey(l.slug))])
        ELSE \E draw \in RandDraws :
               Goto(p, "check", [l EXCEPT !.slug = generateSlug(draw), !.i = @ + 1])
  /\ UNCHANGED <<urlKV, clicksKV, kvHasList, tasks, nreq>>

\* await env.URL_KV.put(slug, JSON.stringify(linkData)) and the response
\* (lines 149-156)
ShortenPut(p, fail) ==
  /\ pc[p] = "put"
  /\ LET l == [loc[p] EXCEPT !.ops = @ + 1]
     IN IF fail
          THEN /\ Rejected(p, l, JsonError(500, "Server Error"))
               /\ UNCHANGED urlKV
          ELSE /\ urlKV' = kvPut(urlKV, toKey(l.slug), StoredLink(l.req.body.url, l.slug))
               /\ Respond(p, l.req, Shortened(l.slug), l.ops, l.pre)
  /\ UNCHANGED <<clicksKV, kvHasList, tasks, nreq>>

\* ------------------------------------------------------ DELETE /api/delete

\* lines 164-175, to the await of URL_KV.get
DeleteStart(p, R, seq, max) ==
  /\ Arrives(p, seq, max)
  /\ \E req \in R :
       /\ Route(req.method, req.pathname) = "delete"
       /\ IF ~validateApiKey(req.auth, req.secret)
            THEN Respond(p, req, Unauthorized, 0, urlKV)
          ELSE IF req.body.parse = "throws"
            THEN Respond(p, req, JsonError(500, "server error"), 0, urlKV)
          ELSE IF Falsy(req.body.slug)
            THEN Respond(p, req, JsonError(400, "missing slug"), 0, urlKV)
          ELSE Goto(p, "dget", [StartLoc(req) EXCEPT !.slug = req.body.slug])
       /\ UNCHANGED <<urlKV, clicksKV, kvHasList, tasks>>

\* await env.URL_KV.get(body.slug) (lines 176-179)
DeleteGet(p, fail) ==
  /\ pc[p] = "dget"
  /\ LET l == [loc[p] EXCEPT !.ops = @ + 1]
     IN IF fail
          THEN Rejected(p, l, JsonError(500, "server error"))
        ELSE IF ~kvHas(urlKV, l.slug)
          THEN Respond(p, l.req, JsonError(404, "slug not found"), l.ops, l.pre)
        ELSE Goto(p, "ddel", l)
  /\ UNCHANGED <<urlKV, clicksKV, kvHasList, tasks, nreq>>

\* await env.URL_KV.delete(body.slug) and the response (lines 180-181)
DeleteDelBoth(p, fail) ==
  /\ pc[p] = "ddel"
  /\ LET l == [loc[p] EXCEPT !.ops = @ + 1]
     IN IF fail
          THEN /\ Rejected(p, l, JsonError(500, "server error"))
               /\ UNCHANGED urlKV
          ELSE /\ urlKV' = kvDelete(urlKV, l.slug)
               /\ Respond(p, l.req, [R0 EXCEPT !.status = 200, !.msg = "link deleted"],
                          l.ops, l.pre)
  /\ clicksKV' = IF fail THEN clicksKV ELSE kvDelete(clicksKV, loc[p].slug)
  /\ UNCHANGED <<kvHasList, tasks, nreq>>

DeleteDel(p, fail) ==
  /\ pc[p] = "ddel"
  /\ LET l == [loc[p] EXCEPT !.ops = @ + 1]
     IN IF fail
          THEN /\ Rejected(p, l, JsonError(500, "server error"))
               /\ UNCHANGED urlKV
          ELSE /\ urlKV' = kvDelete(urlKV, l.slug)
               /\ Respond(p, l.req, [R0 EXCEPT !.status = 200, !.msg = "link deleted"],
                          l.ops, l.pre)
  /\ UNCHANGED <<clicksKV, kvHasList, tasks, nreq>>

\* ------------------------------------------------------------ click counts

\* getClickCount (lines 103-111) once LINK_CLICKS_KV.get has answered raw, or
\* has rejected (fail)
getClickCount(raw, fail) == IF fail THEN 0 ELSE parseCount(raw)

\* next of incrementClickCount (lines 116-117) for the text read
nextCountReset(raw) == IF parseCount(raw) >= 1 THEN 0 ELSE 1

nextCountTwice(raw) == parseCount(raw) + 2

nextCount(raw) == parseCount(raw) + 1

\* a detached incrementClickCount(slug), before its get; stale: since its get,
\* another increment of the slug has written the counter
NewTask(slug) == [slug |-> slug, st |-> "read", next |-> 0, stale |-> FALSE]

\* The pending increments B once an increment of slug has written: those of the
\* slug that have read and not yet written are now stale.
Overtaken(B, slug) ==
  LET mark(u) == IF u.slug = slug /\ u.st = "write" THEN [u EXCEPT !.stale = TRUE] ELSE u
      copies(v) == { u \in BagToSet(B) : mark(u) = v }
      fresh(v) == [v EXCEPT !.stale = FALSE]
  IN [ v \in { mark(u) : u \in BagToSet(B) } |->
         (IF v \in copies(v) THEN B[v] ELSE 0)
         + (IF fresh(v) # v /\ fresh(v) \in copies(v) THEN B[fresh(v)] ELSE 0) ]

\* await env.LINK_CLICKS_KV.get(slug) of a detached increment (line 115); a
\* rejection is logged and ends the task
TaskRead(t, fail) ==
  /\ BagIn(t, tasks)
  /\ t.st = "read"
  /\ tasks' = IF fail THEN tasks (-) SetToBag({t})
              ELSE (tasks (-) SetToBag({t}))
                   (+) SetToBag({[t EXCEPT !.st = "write",
                                           !.next = nextCount(kvGetText(clicksKV, t.slug))]})
  /\ UNCHANGED <<urlKV, clicksKV, kvHasList, pc, loc, nreq, last, prev, hits, strays>>

\* await env.LINK_CLICKS_KV.put(slug, String(next)) of a detached increment
\* (line 118)
TaskWrite(t, fail) ==
  /\ BagIn(t, tasks)
  /\ t.st = "write"
  /\ tasks' = IF fail THEN tasks (-) SetToBag({t})
              ELSE Overtaken(tasks (-) SetToBag({t}), t.slug)
  /\ clicksKV' = IF fail THEN clicksKV ELSE kvPut(clicksKV, t.slug, String(t.next))
  /\ UNCHANGED <<urlKV, kvHasList, pc, loc, nreq, last, prev, hits, strays>>

\* -------------------------------------------------- GET /api/links/:slug

\* what getLinkInfo returns for a stored link and its clicks (line 128)
LinkInfo(stored, clicks) ==
  [ slug |-> stored.slug, destination |-> stored.originalUrl, created |-> stored.created,
    clicks |-> clicks ]

InfoResponse(stored, clicks) ==
  [R0 EXCEPT !.status = 200, !.slug = stored.slug, !.destination = stored.originalUrl,
             !.created = stored.created, !.clicks = clicks]

\* lines 189-200: the slug is decoded before the key is checked, outside the
\* route's try, so a URIError ends in the catch-all of fetch
InfoStart(p, R, seq, max) ==
  /\ Arrives(p, seq, max)
  /\ \E req \in R :
       /\ Route(req.method, req.pathname) = "info"
       /\ LET dec == decodeURIComponent(slice(req.pathname, Len(infoBase(req.pathname))))
          IN IF ~dec.ok
               THEN Respond(p, req, CatchAll, 0, urlKV)
             ELSE IF ~validateApiKey(req.auth, req.secret)
               THEN Respond(p, req, Unauthorized, 0, urlKV)
             ELSE Goto(p, "iget", [StartLoc(req) EXCEPT !.slug = dec.val])
       /\ UNCHANGED <<urlKV, clicksKV, kvHasList, tasks>>

\* getLinkInfo: await env.URL_KV.get(slug, {type: 'json'}) (lines 125-126, 202)
InfoGet(p, fail) ==
  /\ pc[p] = "iget"
  /\ LET l == [loc[p] EXCEPT !.ops = @ + 1]
     IN IF fail
          THEN Rejected(p, l, JsonError(500, "server error"))
        ELSE IF ~kvHas(urlKV, l.slug)
          THEN Respond(p, l.req, JsonError(404, "slug not found"), l.ops, l.pre)
        ELSE Goto(p, "icount", [l EXCEPT !.rec = urlKV[l.slug]])
  /\ UNCHANGED <<urlKV, clicksKV, kvHasList, tasks, nreq>>

\* getLinkInfo: await getClickCount(slug), and the response (lines 127-128, 203)
InfoCount(p, fail) ==
  /\ pc[p] = "icount"
  /\ LET l == [loc[p] EXCEPT !.ops = @ + 1]
     IN RespondNoted(p, l.req,
                     InfoResponse(l.rec, getClickCount(kvGetText(clicksKV, l.slug), fail)),
                     l.ops, l.pre, FALSE, IF fail THEN {"clicks"} ELSE {})
  /\ UNCHANGED <<urlKV, clicksKV, kvHasList, tasks, nreq>>

\* ------------------------------------------------------- GET /api/links

\* lines 211-233, to the first await of URL_KV.list
ListStart(p, R, seq, max) ==
  /\ Arrives(p, seq, max)
  /\ \E req \in R :
       /\ Route(req.method, req.pathname) = "list"
       /\ IF ~validateApiKey(req.auth, req.secret)
            THEN Respond(p, req, Unauthorized, 0, urlKV)
          ELSE IF ~kvHasList
            THEN Respond(p, req, JsonError(501, "KV list not supported in this environment"),
                         0, urlKV)
          ELSE Goto(p, "lpage", StartLoc(req))
       /\ UNCHANGED <<urlKV, clicksKV, kvHasList, tasks>>

\* the batches of lines 235-239: one getLinkInfo per unique key, each at its
\* URL_KV.get
Batches(keys) ==
  LET u == Dedupe(keys)
  IN [i \in 1..Len(u) |-> [key |-> u[i], st |-> "get", rec |-> NoLink, clicks |-> 0]]

\* Promise.all has resolved: no getLinkInfo is pending
Resolved(infos) == \A i \in 1..Len(infos) : infos[i].st \in {"null", "done"}

RECURSIVE Links(_)
\* the results of line 240: the non-null infos, in the order of the keys
Links(infos) ==
  IF infos = <<>> THEN <<>>
  ELSE LET x == infos[1]
       IN (IF x.st = "done" THEN <<LinkInfo(x.rec, x.clicks)>> ELSE <<>>) \o Links(Tail(infos))

ListedAll(infos) == [R0 EXCEPT !.status = 200, !.links = Links(infos)]

\* the response once every getLinkInfo has resolved, else the next await
ListSettle(p, l) ==
  IF Resolved(l.infos)
    THEN RespondNoted(p, l.req, ListedAll(l.infos), l.ops, l.pre, FALSE, l.met)
  ELSE Goto(p, "lres", l)

\* one await env.URL_KV.list({cursor, limit: 1000}) of the paging loop (lines
\* 224-229)
ListPage(p, fail, quirk) ==
  /\ pc[p] = "lpage"
  /\ LET res == kvListQuirk(urlKV, loc[p].cursor, quirk)
         cut == ~res.list_complete /\ Falsy(res.cursor)
         again == quirk = "repeat" /\ loc[p].cursor # Null
         l == [loc[p] EXCEPT !.ops = @ + 1,
                             !.met = IF fail THEN @
                                     ELSE @ \cup (IF cut THEN {"nocursor"} ELSE {})
                                            \cup (IF again THEN {"repeat"} ELSE {})]
         keys == l.keys \o res.keys
     IN IF fail
          THEN Rejected(p, l, JsonError(500, "server error"))
        ELSE IF listDone(res)
          THEN ListSettle(p, [l EXCEPT !.keys = keys, !.cursor = res.cursor,
                                       !.infos = Batches(keys)])
        ELSE Goto(p, "lpage", [l EXCEPT !.keys = keys, !.cursor = res.cursor])
  /\ UNCHANGED <<urlKV, clicksKV, kvHasList, tasks, nreq>>

\* the URL_KV.get of the k-th getLinkInfo of the list answers (line 125); a
\* rejection rejects Promise.all
ListGet(p, k, fail) ==
  /\ pc[p] = "lres"
  /\ k \in 1..Len(loc[p].infos)
  /\ loc[p].infos[k].st = "get"
  /\ LET l == [loc[p] EXCEPT !.ops = @ + 1]
         key == l.infos[k].key
     IN IF fail
          THEN Rejected(p, l, JsonError(500, "server error"))
        ELSE IF ~kvHas(urlKV, key)
          THEN ListSettle(p, [l EXCEPT !.infos[k].st = "null"])
        ELSE Goto(p, "lres", [l EXCEPT !.infos[k].st = "cnt", !.infos[k].rec = urlKV[key]])
  /\ UNCHANGED <<urlKV, clicksKV, kvHasList, tasks, nreq>>

\* the getClickCount of the k-th getLinkInfo of the list answers (line 127)
ListCount(p, k, fail) ==
  /\ pc[p] = "lres"
  /\ k \in 1..Len(loc[p].infos)
  /\ loc[p].infos[k].st = "cnt"
  /\ LET l == [loc[p] EXCEPT !.ops = @ + 1,
                             !.met = IF fail THEN @ \cup {"clicks"} ELSE @]
         key == l.infos[k].key
     IN ListSettle(p, [l EXCEPT !.infos[k].st = "done",
                                !.infos[k].clicks = getClickCount(kvGetText(clicksKV, key), fail)])
  /\ UNCHANGED <<urlKV, clicksKV, kvHasList, tasks, nreq>>

\* ------------------------------------------------------------ GET /{slug}

\* lines 249-253, to the await of URL_KV.get
RedirectStart(p, R, seq, max) ==
  /\ Arrives(p, seq, max)
  /\ \E req \in R :
       /\ Route(req.method, req.pathname) = "redirect"
       /\ IF Falsy(redirectSlug(req.pathname))
            THEN Respond(p, req, Text(404, "not found"), 0, urlKV)
          ELSE Goto(p, "rget", [StartLoc(req) EXCEPT !.slug = redirectSlug(req.pathname)])
       /\ UNCHANGED <<urlKV, clicksKV, kvHasList, tasks>>

\* Response.redirect(stored.originalUrl, 301), or its TypeError caught at
\* lines 264-267
RedirectedFound(url) ==
  IF RedirectParses(url)
    THEN [R0 EXCEPT !.status = 302, !.kind = "redirect", !.location = RedirectLocation(url)]
    ELSE Text(500, "server error")

Redirected(url) ==
  IF RedirectParses(url)
    THEN [R0 EXCEPT !.status = 301, !.kind = "redirect", !.location = RedirectLocation(url)]
    ELSE Text(500, "server error")

\* await env.URL_KV.get(slug, {type: 'json'}); on a hit the increment is
\* started, through ctx.waitUntil or bare, and not awaited (lines 253-263)
RedirectGet(p, fail) ==
  /\ pc[p] = "rget"
  /\ LET l == [loc[p] EXCEPT !.ops = @ + 1]
     IN IF fail
          THEN /\ Rejected(p, l, Text(500, "server error"))
               /\ UNCHANGED tasks
        ELSE IF ~kvHas(urlKV, l.slug)
          THEN /\ Respond(p, l.req, Text(404, "not found"), l.ops, l.pre)
               /\ UNCHANGED tasks
        ELSE /\ tasks' = tasks (+) SetToBag({NewTask(l.slug)})
             /\ RespondStarted(p, l.req, Redirected(urlKV[l.slug].originalUrl), l.ops, l.pre,
                               TRUE)
  /\ UNCHANGED <<urlKV, clicksKV, kvHasList, nreq>>

\* ------------------------------------------------------- specifications

\* Every step the worker can take: up to max requests of R arrive at the slots PS, handlers and detached
\* increments go on past one await, whose store call rejects for fail in F.
NextOver(PS, R, F, Q, seq, max) ==
  \/ \E p \in PS :
       \/ Health(p, R, seq, max)
       \/ NotFound(p, R, seq, max)
       \/ ShortenStart(p, R, seq, max)
       \/ DeleteStart(p, R, seq, max)
       \/ InfoStart(p, R, seq, max)
       \/ ListStart(p, R, seq, max)
       \/ RedirectStart(p, R, seq, max)
       \/ \E fail \in F :
            \/ ShortenCheck(p, fail)
            \/ ShortenPut(p, fail)
            \/ DeleteGet(p, fail)
            \/ DeleteDel(p, fail)
            \/ InfoGet(p, fail)
            \/ InfoCount(p, fail)
            \/ \E quirk \in Q : ListPage(p, fail, quirk)
            \/ RedirectGet(p, fail)
            \/ \E k \in DOMAIN loc[p].infos :
                 \/ ListGet(p, k, fail)
                 \/ ListCount(p, k, fail)
  \/ \E t \in BagToSet(tasks), fail \in F :
       \/ TaskRead(t, fail)
       \/ TaskWrite(t, fail)

\* Requests overlap freely and store calls may reject.
Next == NextOver(Procs, ConcReqs, BOOLEAN, {"none"}, FALSE, MaxReqs)

Spec == Init /\ [][Next]_vars

\* One request at a time, its detached increment included, on stores whose
\* calls do not reject.
SeqNext == NextOver({1}, StoreReqs, {FALSE}, {"none"}, TRUE, MaxReqs)

SeqSpec == Init /\ [][SeqNext]_vars

\* One request at a time, of every method, path, header, secret and body, on
\* stores whose calls may reject.
\* The requests of the probes: every route, every key check, every shorten body.
ProbeReqs == RouteReqs \cup AuthReqs \cup ShortenReqs

ReqNext == NextOver({1}, ProbeReqs, BOOLEAN, {"none"}, TRUE, MaxProbes)

ReqInit == InitOver(InitialStores \cup {UnparsedStore})

ReqSpec == ReqInit /\ [][ReqNext]_vars

\* One request at a time, of those on one custom slug, on stores whose calls may
\* reject: chains of a redirect, a delete, a shorten and an info of the slug.
ChainNext == NextOver({1}, ConcReqs, BOOLEAN, {"none"}, TRUE, MaxChain)

ChainSpec == Init /\ [][ChainNext]_vars

\* Requests that write the Link Store, with a valid key: shortens with a custom
\* slug, with none and with a slug that is a JSON number, of urls that pass the
\* check and that do not; deletes of a stored slug; the reads of ConcReqs.
WriteReqs ==
  { Req("POST", S_shorten, GoodHeader, GoodSecret, b) :
      b \in {Body(UrlA, SlugGo), Body(UrlX, Null), Body(UrlFtp, SlugGo),
             Body(NonString, SlugLinks), Body(UrlB, NonString)} }
  \cup { Req("DELETE", S_delete, GoodHeader, GoodSecret, Body(Null, sl)) : sl \in {SlugGo, NumText} }
  \cup { Req("GET", path, GoodHeader, GoodSecret, NoBody) : path \in {S_root, S_apiLinks, P_go, P_infoGo, P_apiLinksX} }

\* Two handlers that overlap, on stores whose calls may reject, over the
\* requests that write the Link Store.
WriteNext == NextOver(Procs, WriteReqs, BOOLEAN, {"none"}, FALSE, MaxReqs)

WriteSpec == Init /\ [][WriteNext]_vars

\* A Link Store of two links, listed in two pages.
TwoLinks == kvPut(kvPut(EmptyKV, SlugGo, StoredLink(UrlA, SlugGo)),
                  SlugGen1, StoredLink(UrlB, SlugGen1))

\* Requests that overlap a list of two links: the list, the delete of one of
\* them, the shorten of a third, a redirect and an info, the health check and an
\* unknown route.  A deleted slug is not created again and the others are not
\* deleted.
ListReqs ==
  { Req("POST", S_shorten, GoodHeader, GoodSecret, Body(UrlA, SlugLinks)),
    Req("DELETE", S_delete, GoodHeader, GoodSecret, Body(Null, SlugGo)) }
  \cup { Req("GET", path, GoodHeader, GoodSecret, NoBody) :
           path \in {S_root, S_apiLinks, P_go, P_infoGo, P_apiLinksX} }

ListInit == InitOver({TwoLinks}) /\ kvHasList

\* Requests overlap freely on a backend that lists with every quirk; store
\* calls may reject.
ListNext == NextOver(Procs, ListReqs, BOOLEAN, Quirks, FALSE, MaxListReqs)

ListSpec == ListInit /\ [][ListNext]_vars

\* ------------------------------------------------- the claims' vocabulary

\* A request has been answered.
Answered == last.resp.status # 0

LastRoute == Route(last.req.method, last.req.pathname)

\* The request carries 'Bearer <token>' and the secret holds a JSON array that
\* lists the token.
HasValidToken(req) ==
  /\ req.auth # Null
  /\ startsWith(req.auth, S_Bearer)
  /\ req.secret.form \in {"string", "store"}
  /\ req.secret.text.json = "array"
  /\ \E i \in 1..Len(req.secret.text.items) : req.secret.text.items[i] = slice(req.auth, 7)

\* The request carries no Authorization header, a scheme other than Bearer, or
\* a bearer token that the allowed-key array does not list.
HasNoValidToken(req) ==
  \/ req.auth = Null
  \/ ~startsWith(req.auth, S_Bearer)
  \/ /\ req.secret.form \in {"string", "store"}
     /\ req.secret.text.json = "array"
     /\ \A i \in 1..Len(req.secret.text.items) : req.secret.text.items[i] # slice(req.auth, 7)

\* An authorized POST /api/shorten whose body parsed.
LastIsShorten ==
  /\ Answered
  /\ last.req.method = "POST" /\ last.req.pathname = S_shorten
  /\ HasValidToken(last.req)
  /\ last.req.body.parse = "ok"

\* An authorized DELETE /api/delete whose body parsed and names a slug.
LastIsDelete ==
  /\ Answered
  /\ last.req.method = "DELETE" /\ last.req.pathname = S_delete
  /\ HasValidToken(last.req)
  /\ last.req.body.parse = "ok"
  /\ ~Falsy(last.req.body.slug)

\* The count the Click Store holds for a slug, a missing key counting as 0.
Clicks(slug) == parseCount(kvGetText(clicksKV, slug))

\* ---------------------------------------------------------------- C1

\* C1: every authorized POST /api/shorten whose url starts with 'http' and whose
\* custom slug is not in the Link Store is answered 200 with shortUrl =
\* <origin>/<slug>, and a GET /<slug> right after it is answered with a 301 whose
\* destination is exactly that url.
C1_ShortenThenRedirect ==
  /\ ( /\ LastIsShorten
       /\ startsWith(last.req.body.url, S_http)
       /\ ~Falsy(last.req.body.slug)
       /\ ~last.had )
     => ( /\ last.resp.status = 200
          /\ last.resp.shortUrl = S_origin \o <<"/">> \o last.req.body.slug )
  /\ (prev.op = "shorten" /\ ~prev.had)
     => (last.resp.status = 301 /\ last.resp.location = prev.url)

\* ---------------------------------------------------------------- C2

\* C2: an authorized POST /api/shorten (with a valid url) whose custom slug is
\* already in the Link Store is answered 500 and leaves the record as it was, and
\* a GET /<slug> right after it still redirects to the originalUrl stored first.
C2_DuplicateKeepsRecord ==
  /\ ( /\ LastIsShorten
       /\ startsWith(last.req.body.url, S_http)
       /\ ~Falsy(last.req.body.slug)
       /\ last.had )
     => ( /\ last.resp.status = 500
          /\ kvHas(urlKV, last.req.body.slug)
          /\ urlKV[last.req.body.slug].originalUrl = last.preUrl )
  /\ (prev.op = "shorten" /\ prev.had)
     => (last.resp.status = 301 /\ last.resp.location = prev.preUrl)

\* ---------------------------------------------------------------- C4

\* C4: an authorized DELETE /api/delete of a slug that is not in the Link Store
\* is answered 404; of a slug that is, it is answered 200 and removes the record,
\* and a GET /<slug> right after it is answered 404.
C4_DeleteThenNotFound ==
  /\ (LastIsDelete /\ ~last.had) => last.resp.status = 404
  /\ (LastIsDelete /\ last.had)
     => (last.resp.status = 200 /\ ~kvHas(urlKV, last.req.body.slug))
  /\ (prev.op = "delete" /\ prev.had) => last.resp.status = 404

\* ---------------------------------------------------------------- C3

\* The routes on which fetch checks the key, by method and path: the shorten,
\* the delete, the four list paths, and a link's info under /api/links/ or
\* /links/ whose slug part percent-decodes.
IsKeyCheckedRoute(req) ==
  \/ req.method = "POST" /\ req.pathname = S_shorten
  \/ req.method = "DELETE" /\ req.pathname = S_delete
  \/ req.method = "GET" /\ req.pathname \in {S_apiLinks, S_apiLinksSlash, S_links, S_linksSlash}
  \/ /\ req.method = "GET"
     /\ \E base \in {S_apiLinksSlash, S_linksSlash} :
          /\ startsWith(req.pathname, base)
          /\ Len(req.pathname) > Len(base)
          /\ \A i \in (Len(base) + 1)..Len(req.pathname) :
               req.pathname[i] = "%" =>
                 /\ i + 2 <= Len(req.pathname)
                 /\ req.pathname[i + 1] \in Hex
                 /\ req.pathname[i + 2] \in Hex

\* C3 as stated: any POST request, any DELETE request and any request whose path
\* begins with /api/links, that carries no valid bearer token, is answered 401.
C3_AnyPostDeleteLinks401 ==
  ( /\ Answered
    /\ \/ last.req.method \in {"POST", "DELETE"}
       \/ startsWith(last.req.pathname, S_apiLinks)
    /\ HasNoValidToken(last.req) )
  => last.resp.status = 401

\* C3, amended: a request to a route that checks the key (POST /api/shorten,
\* DELETE /api/delete, GET of a list path, GET of a link's info with a slug that
\* percent-decodes), that carries no valid bearer token, is answered 401,
\* whatever its body is and whether or not the stores answer.
C3_KeyCheckedRoutes401 ==
  (Answered /\ IsKeyCheckedRoute(last.req) /\ HasNoValidToken(last.req))
  => (last.resp.status = 401 /\ last.resp.kind = "json")

\* a DELETE with a bearer token the array does not list, and a body that would
\* be refused, has been answered 401
C3_Witness ==
  /\ Answered
  /\ last.req.method = "DELETE" /\ last.req.pathname = S_delete
  /\ last.req.auth = H_bearerK2
  /\ last.req.secret = SecretString(J_arrayK1)
  /\ last.req.body = Body(UrlFtp, Null)
  /\ last.resp.status = 401

\* ---------------------------------------------------------------- C5

\* C5: when the redirects of a slug, each with its increment, are handled one
\* after another, every 301 adds exactly 1 to the slug's counter: starting from
\* an absent counter, after n redirects of the slug that were all answered 301,
\* GET /api/links/<slug> reports clicks = n.
C5_ClicksCountRedirects ==
  (Answered /\ LastRoute = "info" /\ last.resp.status = 200 /\ strays[last.resp.slug] = 0)
  => last.resp.clicks = hits[last.resp.slug]

\* two redirects of a slug, then its info reporting clicks = 2
C5_Witness ==
  /\ Answered
  /\ LastRoute = "info"
  /\ last.resp.status = 200
  /\ last.resp.clicks = 2
  /\ hits[last.resp.slug] = 2
  /\ strays[last.resp.slug] = 0

\* ---------------------------------------------------------------- C6

\* the characters a-z, A-Z, 0-9
Alnum == { Ascii[i] : i \in 3..Len(Ascii) }

C7_InvalidUrl400NoStore ==
  ( /\ LastIsShorten
    /\ \/ last.req.body.url = Null
       \/ last.req.body.url = NonString
       \/ ~startsWith(last.req.body.url, S_http) )
  => (last.resp.status = 400 /\ last.ops = 0)

\* a shorten of ftp://x with a custom slug has been answered 400
C7_Witness ==
  /\ LastIsShorten
  /\ last.req.body.url = UrlFtp
  /\ last.req.body.slug = SlugGo
  /\ last.resp.status = 400
  /\ last.ops = 0

\* ---------------------------------------------------------------- C8

\* C8: an authorized GET of /api/links, /api/links/, /links or /links/ on a Link
\* Store without list is answered 501, never 200.
C8_ListUnsupported501 ==
  ( /\ Answered
    /\ last.req.method = "GET"
    /\ last.req.pathname \in {S_apiLinks, S_apiLinksSlash, S_links, S_linksSlash}
    /\ HasValidToken(last.req)
    /\ ~kvHasList )
  => (last.resp.status = 501 /\ last.ops = 0)

\* GET /links/ on a store that holds a link and has no list has been answered 501
C8_Witness ==
  /\ Answered
  /\ last.req.method = "GET"
  /\ last.req.pathname = S_linksSlash
  /\ HasValidToken(last.req)
  /\ ~kvHasList
  /\ DOMAIN urlKV # {}
  /\ last.resp.status = 501

\* ---------------------------------------------------------------- C9

\* C9 as stated: under any interleaving of requests, a record stored under a
\* slug does not change while the slug stays in the Link Store.
C9_RecordNeverReplaced ==
  [][\A k \in DOMAIN urlKV : k \in DOMAIN urlKV' => urlKV'[k] = urlKV[k]]_vars

\* C9, amended: under any interleaving of requests, a shorten whose existence
\* check finds a record under its slug never writes: the record stored under a
\* slug is replaced only by the put of a shorten whose own check of the slug was
\* answered before the record was stored, that is by a shorten that overlapped
\* the one that stored it.
C9_ReplacedOnlyByOverlap ==
  [][\A k \in DOMAIN urlKV :
       (k \in DOMAIN urlKV' /\ urlKV'[k] # urlKV[k])
       => \E p \in Procs :
            /\ pc[p] = "put" /\ pc'[p] = "idle"
            /\ loc[p].slug = k
            /\ ~loc[p].existing]_vars

\* a later shorten of a stored slug with another url has been refused at its
\* check and the record still holds the first url
C9_Witness ==
  /\ LastIsShorten
  /\ last.had
  /\ last.ops = 1
  /\ last.req.body.url \in {UrlA, UrlB}
  /\ last.req.body.url # last.preUrl
  /\ last.resp.status = 500
  /\ kvHas(urlKV, last.req.body.slug)
  /\ urlKV[last.req.body.slug].originalUrl = last.preUrl

\* ---------------------------------------------------------------- C10

\* C10 as stated: under any interleaving of redirects, no step lowers the value
\* of a slug's click counter.
C10_CountNeverDecreases ==
  [][\A k \in PathSlugs : parseCount(kvGetText(clicksKV', k)) >= Clicks(k)]_vars

\* C10, amended: under any interleaving of redirects, a step lowers the value of
\* a slug's click counter only when it is the write of an increment that
\* another increment of the slug has overtaken (written between its read and
\* its write); increments that do not overlap never lower the counter.
C10_LoweredOnlyByOverlap ==
  [][\A k \in PathSlugs :
       parseCount(kvGetText(clicksKV', k)) < Clicks(k)
       => \E t \in BagToSet(tasks) :
            /\ t.slug = k /\ t.st = "write" /\ t.stale
            /\ tasks' # tasks
            /\ parseCount(kvGetText(clicksKV', k)) = t.next]_vars

\* a counter has been incremented twice
C10_Witness == \E k \in PathSlugs : Clicks(k) = 2 /\ hits[k] = 2

\* ---------------------------------------------------------------- C11

\* The request answered last is on a route that checks the key and has reached
\* the check.
KeyChecked(req) ==
  /\ IsKeyCheckedRoute(req)
  /\ Route(req.method, req.pathname) \in {"shorten", "delete", "info", "list"}

\* The secret source fails: API_KEYS.get() rejects, or JSON.parse throws on the
\* text it resolves to.
SecretFaults(req) ==
  \/ req.secret.form = "throws"
  \/ req.secret.form \in {"string", "store"} /\ req.secret.text.json = "invalid"

\* The handler of the request answered last met a fault that it reports: a
\* rejected Link Store call, a body that does not parse, a slug part that does
\* not percent-decode, a stored url that Response.redirect does not parse.
LastFaulted ==
  \/ "link" \in last.met
  \/ /\ LastRoute \in {"shorten", "delete"}
     /\ validateApiKey(last.req.auth, last.req.secret)
     /\ last.req.body.parse = "throws"
  \/ /\ LastRoute = "info"
     /\ ~decodeURIComponent(slice(last.req.pathname, Len(infoBase(last.req.pathname)))).ok
  \/ /\ LastRoute = "redirect"
     /\ last.ops = 1
     /\ kvHas(urlKV, redirectSlug(last.req.pathname))
     /\ ~RedirectParses(urlKV[redirectSlug(last.req.pathname)].originalUrl)

Handled == nreq > 0 /\ \A p \in Procs : pc[p] = "idle"

\* C11 as stated: every request ends with a response, and any fault of a store
\* call, of the secret source, of body parsing or of another handler step is
\* turned into a status-500 response.
C11_EveryFault500 ==
  Handled
  => /\ last.resp.status # 0
     /\ last.resp.kind \in {"json", "text", "redirect"}
     /\ ( \/ LastFaulted
          \/ "clicks" \in last.met
          \/ KeyChecked(last.req) /\ last.req.auth # Null
             /\ startsWith(last.req.auth, S_Bearer) /\ SecretFaults(last.req) )
        => last.resp.status = 500

\* C11, amended: every request ends with a response and no fault escapes fetch.
\* A rejected Link Store call, a body that does not parse, a slug part that does
\* not percent-decode and a stored url that Response.redirect rejects are
\* answered 500; a fault of the secret source is answered 401; a rejected
\* counter read is not reported: the info is answered 200 with clicks 0.
C11_FaultsAnswered ==
  Handled
  => /\ last.resp.status \in {200, 301, 400, 401, 404, 500, 501}
     /\ last.resp.kind \in {"json", "text", "redirect"}
     /\ LastFaulted => last.resp.status = 500
     /\ (KeyChecked(last.req) /\ SecretFaults(last.req)) => last.resp.status = 401
     /\ (LastRoute = "info" /\ last.met = {"clicks"})
        => (last.resp.status = 200 /\ last.resp.clicks = 0)

\* a GET of an info whose slug part has a malformed escape, with no key, has
\* been answered 500 by the catch-all
C11_Witness ==
  /\ Handled
  /\ last.req.pathname = P_infoBadEsc
  /\ last.req.auth = H_none
  /\ last.resp = Text(500, "server error")

\* ---------------------------------------------------------------- C12

\* C12: a request to a route that checks the key is authorized (not answered
\* 401) if and only if the secret resolves to a JSON array of strings and the
\* bearer token equals one of its elements; with a secret that is absent or is
\* no JSON array of strings, every such request is answered 401.
C12_AuthorizedIffListed ==
  (Handled /\ KeyChecked(last.req))
  => (last.resp.status # 401 <=> HasValidToken(last.req))

\* ---------------------------------------------------------------- C13

\* C13: on a redirect hit (the record is read and the increment is started) the
\* response is 301 to the stored url, whatever the pending increments and the
\* Click Store are; and a step of a detached increment, failing or not, changes
\* no response and no handler.
C13_RedirectIgnoresIncrement ==
  [][ /\ \A p \in Procs :
           ( /\ pc[p] = "rget" /\ pc'[p] = "idle"
             /\ BagCardinality(tasks') = BagCardinality(tasks) + 1
             /\ RedirectParses(urlKV[loc[p].slug].originalUrl) )
           => /\ last'.resp.status = 301
              /\ last'.resp.location = RedirectLocation(urlKV[loc[p].slug].originalUrl)
              /\ last'.resp.msg = ""
      /\ BagCardinality(tasks') < BagCardinality(tasks)
           => (last' = last /\ pc' = pc /\ urlKV' = urlKV)
      /\ (pc' = pc /\ tasks' # tasks) => last' = last ]_vars

\* a redirect was answered 301, its increment has ended without writing the
\* counter, and a second redirect has been answered 301 while its increment has
\* not yet read
C13_Witness ==
  /\ last.resp.status = 301
  /\ last.req.pathname = P_go
  /\ hits[SlugGo] = 2
  /\ Clicks(SlugGo) = 0
  /\ tasks = SetToBag({NewTask(SlugGo)})

\* ---------------------------------------------------------------- C14

\* A step of the handler of a DELETE /api/delete: its start, its get, its
\* delete, in every outcome.
DeleteStep ==
  \/ \E p \in Procs : pc[p] \in {"dget", "ddel"} /\ pc'[p] # pc[p]
  \/ \E p \in Procs :
       /\ pc[p] = "idle"
       /\ \/ pc'[p] = "dget"
          \/ pc'[p] = "idle" /\ last' # last /\ Route(last'.req.method, last'.req.pathname) = "delete"

\* C14: no step of a DELETE /api/delete changes the Click Store, and the info
\* of a link reports the value its slug's counter holds, carried over a delete
\* and a later shorten of the slug: the number of increments written for the
\* slug since the counter was absent.
C14_DeleteKeepsClicks ==
  [][ /\ DeleteStep => clicksKV' = clicksKV
      /\ ( /\ Route(last'.req.method, last'.req.pathname) = "info"
           /\ last' # last
           /\ last'.resp.status = 200
           /\ last'.met = {} )
         => last'.resp.clicks = Clicks(last'.resp.slug) ]_vars

\* a redirect counted 1, the link was deleted and created again with another
\* url, and its info reports clicks 1
C14_Witness ==
  /\ LastRoute = "info"
  /\ last.resp.status = 200
  /\ last.resp.destination = UrlB
  /\ last.resp.clicks = 1
  /\ hits[SlugGo] = 1
  /\ urlKV # EmptyKV

\* ---------------------------------------------------------------- C15

\* the slugs of the records a list response holds
Listed(resp) == { resp.links[i].slug : i \in 1..Len(resp.links) }

\* Slot p's list handler returns 200 in this step.
ListReturns(p) ==
  /\ pc[p] \in {"lpage", "lres"}
  /\ pc'[p] = "idle"
  /\ last'.resp.status = 200

\* C15 as stated: the 200 result of a list holds a record for every slug that
\* is in the Link Store throughout the request, however many pages the keys
\* come in.
C15_ListHoldsEverySlug ==
  [][\A p \in Procs :
       ListReturns(p)
       => \A k \in (DOMAIN loc[p].pre) \cap (DOMAIN urlKV) : k \in Listed(last'.resp)]_vars

\* C15, amended: the list pages on until a page is complete or comes without a
\* cursor; when every incomplete page came with a cursor, its 200 result holds
\* a record for every slug that is in the Link Store throughout the request.
C15_ListHoldsEverySlugPaged ==
  [][\A p \in Procs :
       (ListReturns(p) /\ "nocursor" \notin last'.met)
       => \A k \in (DOMAIN loc[p].pre) \cap (DOMAIN urlKV) : k \in Listed(last'.resp)]_vars

\* a list of two pages, during which a third link was stored, has returned the
\* two links that were there throughout
C15_Witness ==
  /\ LastRoute = "list"
  /\ last.resp.status = 200
  /\ last.met = {}
  /\ last.ops >= 4
  /\ {SlugGo, SlugGen1} \subseteq Listed(last.resp)
  /\ DOMAIN urlKV = {SlugGo, SlugGen1, SlugLinks}

\* ---------------------------------------------------------------- C16

\* C16: under any interleaving of a list with a delete, a list whose store
\* calls do not reject returns 200; a slug whose record was gone when it was
\* resolved is not in the result; the links array holds no null entry; and each
\* slug is in it at most once, also when a page repeated a key.
C16_GoneSlugLeftOut ==
  [][\A p \in Procs :
       (pc[p] \in {"lpage", "lres"} /\ pc'[p] = "idle")
       => /\ "link" \notin last'.met => last'.resp.status = 200
          /\ last'.resp.status = 200
             => /\ \A i \in 1..Len(loc[p].infos) :
                     loc[p].infos[i].st = "null"
                     => loc[p].infos[i].key \notin Listed(last'.resp)
                /\ \A k \in Listed(last'.resp) : k \in DOMAIN loc[p].pre \/ k \in DOMAIN urlKV
                /\ \A i \in 1..Len(last'.resp.links) :
                     /\ last'.resp.links[i].slug # Null
                     /\ last'.resp.links[i].destination # Null
                /\ \A i, j \in 1..Len(last'.resp.links) :
                     last'.resp.links[i].slug = last'.resp.links[j].slug => i = j]_vars

\* a list enumerated both links in two pages, the second repeating the first
\* key; the first link was deleted before it was resolved; the list has
\* returned the other link alone
C16_Witness ==
  /\ LastRoute = "list"
  /\ last.resp.status = 200
  /\ last.met = {"repeat"}
  /\ last.ops = 5
  /\ Listed(last.resp) = {SlugGen1}
  /\ Len(last.resp.links) = 1
  /\ DOMAIN urlKV = {SlugGen1}

\* ---------------------------------------------------------------- C17

\* C17: getUniqueSlug ends after at most 5 existence checks: a custom slug is
\* checked exactly once and a taken one is refused at once; without a custom
\* slug the first free candidate is returned, and when the fifth candidate is
\* taken too it fails: the shorten is answered 500 and the Link Store is as it
\* was when the request started.
C17_SlugResolutionBounded ==
  [][\A p \in Procs :
       /\ pc[p] = "check"
          => /\ loc[p].ops = loc[p].i
             /\ loc[p].i < 5
             /\ loc[p].custom => loc[p].i = 0
       /\ (pc[p] = "check" /\ pc'[p] = "check")
          => (~loc[p].custom /\ kvHas(urlKV, loc[p].slug) /\ loc'[p].i = loc[p].i + 1)
       /\ (pc[p] = "check" /\ pc'[p] = "put")
          => (~kvHas(urlKV, loc[p].slug) /\ loc'[p].slug = loc[p].slug)
       /\ (pc[p] = "check" /\ pc'[p] = "idle")
          => /\ kvHas(urlKV, loc[p].slug)
             /\ loc[p].custom \/ loc[p].i = 4
             /\ last'.resp.status = 500
             /\ last'.ops = loc[p].i + 1
             /\ urlKV' = urlKV /\ urlKV = loc[p].pre]_vars

\* a shorten without a slug has found five candidates taken and has been
\* answered 500 after five store calls
C17_Witness ==
  /\ LastIsShorten
  /\ last.req.body.slug = Null
  /\ startsWith(last.req.body.url, S_http)
  /\ last.resp.status = 500
  /\ last.ops = 5
  /\ DOMAIN urlKV = {SlugGen1}

\* ---------------------------------------------------------------- C18

\* the response is a JSON object {error: <message>}
IsJsonError(resp) == resp.kind = "json" /\ resp.msg # ""

\* the response is a plain text 'not found' or 'server error'
IsPlainError(resp) == resp.kind = "text" /\ resp.msg \in {"not found", "server error"}

\* C18 as stated: every failure response is a JSON {error} or a plain text
\* 'not found'/'server error'; the plain text is given only to a GET on a path
\* that does not start with /api/; every failure on a path under /api/ is JSON.
C18_PlainTextOnlyOffApi ==
  (Handled /\ last.resp.status >= 400)
  => /\ IsJsonError(last.resp) \/ IsPlainError(last.resp)
     /\ IsPlainError(last.resp)
        => (last.req.method = "GET" /\ ~startsWith(last.req.pathname, S_api))
     /\ startsWith(last.req.pathname, S_api) => IsJsonError(last.resp)

\* C18, amended: every failure response is a JSON {error} or a plain text
\* 'not found'/'server error'.  The failures of the shorten, delete and list
\* routes and of an info whose slug part percent-decodes are JSON.  The plain
\* text is given by the redirect route (404, 500), to every request that
\* matches no route (404), whatever its method and also under /api/, and to an
\* info whose slug part does not percent-decode (500).
C18_PlainTextRoutes ==
  (Handled /\ last.resp.status >= 400)
  => /\ IsJsonError(last.resp) \/ IsPlainError(last.resp)
     /\ KeyChecked(last.req) => IsJsonError(last.resp)
     /\ LastRoute = "redirect"
        => /\ IsPlainError(last.resp)
           /\ last.resp.msg = "not found" <=> last.resp.status = 404
           /\ last.resp.msg = "server error" <=> last.resp.status = 500
     /\ LastRoute = "notfound" => last.resp = [R0 EXCEPT !.status = 404, !.kind = "text",
                                                         !.msg = "not found"]
     /\ (LastRoute = "info" /\ ~KeyChecked(last.req))
        => last.resp = [R0 EXCEPT !.status = 500, !.kind = "text", !.msg = "server error"]

\* a PUT of /api/shorten has been answered with the plain text 404
C18_Witness ==
  /\ Handled
  /\ last.req.method = "PUT"
  /\ last.req.pathname = S_shorten
  /\ last.resp.status = 404
  /\ last.resp.kind = "text"
  /\ last.resp.msg = "not found"

\* ---------------------------------------------------------------- C19

\* C19: a request answered 401 has made no call on the Link Store or the Click
\* Store: the step that answers 401 is on a route that checks the key, counts no
\* store call, starts no increment and leaves both stores as they are; a
\* handler that is at a store call of such a route carries a key that was
\* accepted.
C19_UnauthorizedTouchesNoStore ==
  [][/\ (last' # last /\ last'.resp.status = 401)
        => /\ KeyChecked(last'.req)
           /\ ~validateApiKey(last'.req.auth, last'.req.secret)
           /\ last'.ops = 0
           /\ last'.met = {}
           /\ urlKV' = urlKV /\ clicksKV' = clicksKV /\ tasks' = tasks
     /\ \A p \in Procs :
          (pc'[p] # "idle" /\ IsKeyCheckedRoute(loc'[p].req))
          => validateApiKey(loc'[p].req.auth, loc'[p].req.secret)]_vars

\* an info of a stored slug, with a bearer token the secret does not list, has
\* been answered 401 with the link still stored and no store call counted
C19_Witness ==
  /\ Handled
  /\ last.req.method = "GET" /\ last.req.pathname = P_infoGo
  /\ last.req.auth = H_bearerK2
  /\ last.req.secret = SecretStore(J_arrayK1)
  /\ last.resp.status = 401
  /\ last.ops = 0
  /\ kvHas(urlKV, SlugGo)

\* ---------------------------------------------------------------- C20

\* C20: from an absent counter, under any interleaving, the value of a slug's
\* click counter is at most the number of 301 responses given for the slug; a
\* step in which a handler returns anything but a 301 starts no increment, and
\* no step of a handler changes the Click Store.
C20_CountWithinRedirects ==
  [][/\ \A k \in PathSlugs : parseCount(kvGetText(clicksKV', k)) <= hits'[k]
     /\ (last' # last /\ last'.resp.status # 301) => tasks' = tasks
     /\ (pc' # pc \/ last' # last) => clicksKV' = clicksKV]_vars

\* ---------------------------------------------------------------- C21

\* the record is the StoredLink a shorten writes under key k
WellFormed(kv) ==
  \A k \in DOMAIN kv : kv[k].slug = k /\ startsWith(kv[k].originalUrl, S_http)

\* C21: every record of the Link Store is well formed, its slug is the key it
\* is stored under and its originalUrl starts with 'http'; a step that adds or
\* replaces a record is the put of a shorten, a step that removes one is the
\* delete of a delete request.
C21_StoredRecordsWellFormed ==
  [][/\ WellFormed(urlKV) /\ WellFormed(urlKV')
     /\ urlKV' # urlKV
        => \E p \in Procs :
             \/ /\ pc[p] = "put"
                /\ Route(loc[p].req.method, loc[p].req.pathname) = "shorten"
                /\ \E k \in DOMAIN urlKV' : urlKV' = kvPut(urlKV, k, urlKV'[k])
             \/ /\ pc[p] = "ddel"
                /\ Route(loc[p].req.method, loc[p].req.pathname) = "delete"
                /\ urlKV' = kvDelete(urlKV, loc[p].slug)]_vars

====
